---- MODULE Spec2Model ----
(***************************************************************************)
(* Student-record server (server.js): a JSON file holding an array of      *)
(* student records, read and rewritten wholesale by the handlers of        *)
(* GET /students, POST /students, DELETE /students/:id and POST /chat.     *)
(*                                                                         *)
(* Strings are sequences of one-character strings, so that the regular     *)
(* expressions of the validation code are evaluated character by           *)
(* character.  Every await of a handler that touches DATA_FILE is a        *)
(* separate step of the request's process, so requests interleave where    *)
(* the event loop lets them; fse.ensureDir, which changes nothing here, is *)
(* taken together with the arrival of the request.  fse.writeJson is       *)
(* fs.writeFile: an open that truncates the file and, later, the write of  *)
(* the text, so a reader in between finds a file that does not parse.      *)
(*                                                                         *)
(* Spec lets requests overlap; SeqSpec serves them one at a time;         *)
(* TailSpec adds a GET /students after the overlapping requests.  last,    *)
(* created, gone, before, solo, loaded and nreq record what happened and   *)
(* are read by no handler.                                                 *)
(*                                                                         *)
(* FormSpec is the page's form (app.js) in front of the server, PageSpec   *)
(* the whole page: allStudents, viewStudents, the filter inputs and the    *)
(* handlers, each await of a fetch being served by the server's steps.     *)
(* PasteSpec is a run of tools/paste-to-json.js on the data file.          *)
(***************************************************************************)
EXTENDS Integers, Sequences, FiniteSets, TLC

\* ---------------------------------------------------------------- bounds
\* requests received when they are served one at a time
MaxReqs == 4

\* requests received when they may overlap
MaxConc == 2

\* arguments given to tools/paste-to-json.js
MaxLines == 2

\* clicks and inputs on the page
MaxClicks == 3

Procs == {"p1", "p2"}

\* ------------------------------------------------------------ characters
UpperSeq == <<"A","B","C","D","E","F","G","H","I","J","K","L","M",
              "N","O","P","Q","R","S","T","U","V","W","X","Y","Z">>

LowerSeq == <<"a","b","c","d","e","f","g","h","i","j","k","l","m",
              "n","o","p","q","r","s","t","u","v","w","x","y","z">>

Upper == {UpperSeq[i] : i \in 1..26}

Lower == {LowerSeq[i] : i \in 1..26}

Digit == {"0","1","2","3","4","5","6","7","8","9"}

\* the characters \s and String.prototype.trim treat as blank
WhiteSpace == {" ", "\t", "\n", "\r"}

\* case folding of the /i flag
ToLower(c) ==
  IF c \in Upper THEN LowerSeq[CHOOSE i \in 1..26 : UpperSeq[i] = c] ELSE c

LowerStr(s) == [i \in 1..Len(s) |-> ToLower(s[i])]

\* String(v).trim() === ''
TrimIsEmpty(s) == \A i \in 1..Len(s) : s[i] \in WhiteSpace

\* String.prototype.trim
Trim(s) ==
  IF TrimIsEmpty(s) THEN <<>>
  ELSE LET a == CHOOSE i \in 1..Len(s) :
                  s[i] \notin WhiteSpace /\ \A j \in 1..(i-1) : s[j] \in WhiteSpace
           b == CHOOSE i \in 1..Len(s) :
                  s[i] \notin WhiteSpace /\ \A j \in (i+1)..Len(s) : s[j] \in WhiteSpace
       IN  SubSeq(s, a, b)

\* ------------------------------------------------- validation predicates
\* /^[A-Z]{1,4}-\d{3}-\d{5}$/
StudentIdOk(s) ==
  \E k \in 1..4 :
    /\ Len(s) = k + 10
    /\ \A i \in 1..k : s[i] \in Upper
    /\ s[k+1] = "-"
    /\ \A i \in (k+2)..(k+4) : s[i] \in Digit
    /\ s[k+5] = "-"
    /\ \A i \in (k+6)..(k+10) : s[i] \in Digit

\* /^[A-Za-z0-9._%+-]+@gmail\.com$/i
GmailOk(s) ==
  /\ Len(s) >= 11
  /\ \A i \in 1..(Len(s)-10) :
       ToLower(s[i]) \in Lower \cup Digit \cup {".", "_", "%", "+", "-"}
  /\ LowerStr(SubSeq(s, Len(s)-9, Len(s)))
       = <<"@","g","m","a","i","l",".","c","o","m">>

\* /^\d(st|nd|rd|th)\s+Year$/i
IsOrdinal(s) ==
  /\ Len(s) >= 8
  /\ s[1] \in Digit
  /\ LowerStr(SubSeq(s, 2, 3)) \in {<<"s","t">>, <<"n","d">>, <<"r","d">>, <<"t","h">>}
  /\ \A i \in 4..(Len(s)-4) : s[i] \in WhiteSpace
  /\ LowerStr(SubSeq(s, Len(s)-3, Len(s))) = <<"y","e","a","r">>

\* /^\d+$/
IsNumYear(s) == Len(s) >= 1 /\ \A i \in 1..Len(s) : s[i] \in Digit

\* /^[A-Za-z ]{2,}$/  (the form's check; the server has no such test)
FullNameOk(s) ==
  /\ Len(s) >= 2
  /\ \A i \in 1..Len(s) : s[i] \in Upper \cup Lower \cup {" "}

\* !payload[k] || String(payload[k]).trim() === ''   (an absent key is the
\* empty string here: both are falsy)
IsMissing(v) == Len(v) = 0 \/ TrimIsEmpty(v)

required == <<"studentId", "fullName", "gender", "gmail", "program",
              "yearLevel", "university">>

Fields == {required[i] : i \in 1..7}

\* the `for (const k of required)` loop: the first missing field, or "none"
FirstMissing(payload) ==
  IF \E i \in 1..7 : IsMissing(payload[required[i]])
  THEN required[CHOOSE i \in 1..7 :
                  /\ IsMissing(payload[required[i]])
                  /\ \A j \in 1..(i-1) : ~IsMissing(payload[required[j]])]
  ELSE "none"

\* The synchronous validation of POST /students: the field of the first
\* check that answers 400, or "none" when the payload gets past all of them.
Validate(payload) ==
  IF FirstMissing(payload) # "none" THEN FirstMissing(payload)
  ELSE IF ~GmailOk(payload.gmail) THEN "gmail"
  ELSE IF ~IsOrdinal(payload.yearLevel) /\ ~IsNumYear(payload.yearLevel)
       THEN "yearLevel"
  ELSE IF ~StudentIdOk(payload.studentId) THEN "studentId"
  ELSE "none"

\* ------------------------------------------------------- request inputs
ID1 == <<"B","P","-","1","1","3","-","0","0","0","0","1">>

ID2 == <<"B","M","-","1","1","3","-","0","0","0","0","2">>

ID3 == <<"C","S","-","1","1","3","-","0","0","0","0","3">>

BadId == <<"b","p","-","1","1","3","-","0","0","0","0","1">>

GoodName == <<"A","l">>

DigitName == <<"A","1">>

Blank == <<" ">>

Empty == <<>>

GoodGmail == <<"a","@","g","m","a","i","l",".","c","o","m">>

UpperGmail == <<"A","@","G","M","A","I","L",".","C","O","M">>

OtherMail == <<"a","@","y","m","a","i","l",".","c","o","m">>

NumYear == <<"5">>

OrdYear == <<"5","t","h"," ","Y","e","a","r">>

WordYear == <<"f","i","v","e">>

PaddedYear == <<" ","5">>

\* three records that pass every check of the form and of the server
Rec1 ==
  [studentId |-> ID1, fullName |-> GoodName, gender |-> <<"F">>,
   gmail |-> GoodGmail, program |-> <<"B","S">>, yearLevel |-> NumYear,
   university |-> <<"U">>]

Rec2 == [Rec1 EXCEPT !.studentId = ID2, !.gmail = UpperGmail]

Rec3 == [Rec1 EXCEPT !.studentId = ID3, !.yearLevel = OrdYear]

Ids == {ID1, ID2, ID3}

\* values that break one field's rule
Variants ==
  [studentId  |-> {BadId},
   fullName   |-> {DigitName, Blank},
   gender     |-> {Empty},
   gmail      |-> {OtherMail},
   program    |-> {Blank},
   yearLevel  |-> {WordYear},
   university |-> {Empty}]

\* request bodies of POST /students: the clean records and the records that
\* differ from Rec1 in one field
Payloads ==
  {Rec1, Rec2, Rec3} \cup
  UNION {{[Rec1 EXCEPT ![f] = v] : v \in Variants[f]} : f \in Fields}

Messages == {Empty, <<"h","i">>}

NoRec ==
  [studentId |-> Empty, fullName |-> Empty, gender |-> Empty, gmail |-> Empty,
   program |-> Empty, yearLevel |-> Empty, university |-> Empty]

\* the bundled data/students.json the server may ship with
Seeds == {<<>>, <<Rec1>>, <<Rec1, Rec2>>}

\* ------------------------------------------------------- the data file
\* Length of the text writeJson(..., { spaces: 2 }) produces: per record 144
\* characters of braces, keys, quotes and separators plus the field values.
RECURSIVE JsonLen(_)
JsonLen(list) ==
  IF list = <<>> THEN 3
  ELSE LET r == list[Len(list)]
           body == 144 + Len(r.studentId) + Len(r.fullName) + Len(r.gender)
                       + Len(r.gmail) + Len(r.program) + Len(r.yearLevel)
                       + Len(r.university)
       IN  IF Len(list) = 1 THEN 5 + body
           ELSE JsonLen(SubSeq(list, 1, Len(list) - 1)) + 2 + body

\* DATA_FILE does not exist
Absent == [kind |-> "absent", data |-> <<>>, len |-> 0]

\* DATA_FILE holds the JSON text of an array of records
Json(list) == [kind |-> "json", data |-> list, len |-> JsonLen(list)]

\* DATA_FILE holds n characters that do not parse as JSON (a file opened for
\* writing and not yet written, or a shorter text written over a longer one)
Bad(n) == [kind |-> "bad", data |-> <<>>, len |-> n]

\* fs.writeFile after its open: the text goes to offset 0 of whatever the
\* file holds by then; what lies beyond the text stays.
Overwrite(f, list) ==
  IF JsonLen(list) >= f.len THEN Json(list) ELSE Bad(f.len)

\* faulty variant: the test looks at a key the records do not have
HasIdWrongKey(list, id) == \E i \in 1..Len(list) : list[i].fullName = id

\* faulty variant: the test looks at the newest record only
HasIdLastOnly(list, id) == Len(list) > 0 /\ list[Len(list)].studentId = id

\* students.some((s) => s.studentId === id)
HasId(list, id) == \E i \in 1..Len(list) : list[i].studentId = id

\* faulty variant: a miss is not told apart from an index, so that splice(-1, 1)
\* takes the last record
FindIndexUnguarded(list, id) ==
  IF \E i \in 1..Len(list) : list[i].studentId = id
  THEN CHOOSE i \in 1..Len(list) :
         /\ list[i].studentId = id
         /\ \A j \in 1..(i-1) : list[j].studentId # id
  ELSE Len(list)

\* students.findIndex((s) => s.studentId === id), 1-based; 0 for -1
FindIndex(list, id) ==
  IF \E i \in 1..Len(list) : list[i].studentId = id
  THEN CHOOSE i \in 1..Len(list) :
         /\ list[i].studentId = id
         /\ \A j \in 1..(i-1) : list[j].studentId # id
  ELSE 0

\* faulty variant: shift() removes the first record, whatever idx is
SpliceFirst(list, idx) == Tail(list)

\* faulty variant: splice(idx) without a count removes everything from idx on
SpliceToEnd(list, idx) == SubSeq(list, 1, idx - 1)

\* what students.splice(idx, 1) leaves in students
Splice(list, idx) == SubSeq(list, 1, idx - 1) \o SubSeq(list, idx + 1, Len(list))

\* faulty variant: concat returns a new array and leaves students as it was
PushConcat(list, payload) == list

\* faulty variant: unshift puts the record first
PushFront(list, payload) == <<payload>> \o list

\* students.push(payload)
Push(list, payload) == Append(list, payload)

\* faulty variant: the credential is not tested
ChatGateNoKey(list, key) == IF Len(list) = 0 THEN 400 ELSE 0

\* faulty variant: the credential is tested before the data
ChatGateKeyFirst(list, key) ==
  IF ~key THEN 500
  ELSE IF Len(list) = 0 THEN 400
  ELSE 0

\* POST /chat between readStudents and axios.post: the status it answers
\* with, or 0 when it goes on to call the completion service
ChatGate(list, key) ==
  IF Len(list) = 0 THEN 400
  ELSE IF ~key THEN 500
  ELSE 0

\* ------------------------------------------------------------ the state
VARIABLES
  seed,      \* SEED_STUDENTS
  hasKey,    \* !!GROQ_API_KEY
  file,      \* DATA_FILE
  pc,        \* where each request in flight is
  req,       \* the request each process serves
  students,  \* the handler's local `students`
  removed,   \* the handler's local `removed`
  before,    \* DATA_FILE when the request in flight arrived, if it is alone
  solo,      \* the request in flight has had the server to itself
  loaded,    \* what readStudents returned to the request
  calls,     \* axios.post calls made by the request
  last,      \* the request answered last: request, response, file before/after
  created,   \* the studentIds for which POST /students answered 201
  gone,      \* the studentIds DELETE answered 200 for, not posted since
  nreq,      \* requests received
  form,      \* the page's #studentForm and what became of its submission
  tool,      \* a run of tools/paste-to-json.js
  ui         \* the page: allStudents, viewStudents and the filter inputs

vars == <<seed, hasKey, file, pc, req, students, removed, before, solo,
          loaded, calls, last, created, gone, nreq, form, tool, ui>>

\* what is outside the server
Aside == <<form, tool, ui>>

NoReq == [kind |-> "none", payload |-> NoRec, id |-> Empty, message |-> Empty]

NoResp == [status |-> 0, rec |-> NoRec, list |-> <<>>, error |-> "none"]

NoDone == [req |-> NoReq, resp |-> NoResp, solo |-> FALSE, pre |-> Absent,
           post |-> Absent, loaded |-> <<>>, calls |-> 0]

\* the server after app.listen
Boot ==
  /\ seed \in Seeds
  /\ hasKey \in BOOLEAN
  /\ file \in {Absent, Json(seed)}
  /\ pc = [p \in Procs |-> "idle"]
  /\ req = [p \in Procs |-> NoReq]
  /\ students = [p \in Procs |-> <<>>]
  /\ removed = [p \in Procs |-> NoRec]
  /\ before = Absent
  /\ solo = FALSE
  /\ loaded = [p \in Procs |-> <<>>]
  /\ calls = [p \in Procs |-> 0]
  /\ last = NoDone
  /\ created = {}
  /\ gone = [any |-> {}, safe |-> {}]
  /\ nreq = 0

\* no page is open and the import tool is not run
NoForm == [pc |-> "none", data |-> NoRec, via |-> "none"]

NoTool == [pc |-> "none"]

NoUi == [pc |-> "none"]

Init ==
  /\ Boot
  /\ form = NoForm
  /\ tool = NoTool
  /\ ui = NoUi

Quiet == \A p \in Procs : pc[p] = "idle"

Err(code, what) == [NoResp EXCEPT !.status = code, !.error = what]

\* the catch block of each handler
Failure(kind) ==
  Err(500, CASE kind = "list"   -> "Failed to read students."
             [] kind = "create" -> "Failed to add student."
             [] kind = "delete" -> "Failed to delete student."
             [] OTHER           -> "Failed to contact LLM API.")

\* bookkeeping of an answered request
Answered(r, q, alone, f0, f1, ld, n) ==
  /\ last' = [req |-> q, resp |-> r, solo |-> alone, pre |-> f0, post |-> f1,
              loaded |-> ld, calls |-> n]
  /\ created' = IF r.status = 201 THEN created \cup {q.payload.studentId}
                ELSE created

\* history: a POST /students of an id arrives after its deletion
Issued(q) ==
  IF q.kind = "create"
  THEN [any |-> gone.any \ {q.payload.studentId},
        safe |-> gone.safe \ {q.payload.studentId}]
  ELSE gone

\* history: DELETE /students/:id is answered 200; `safe` keeps the ids
\* deleted by a request that had the server to itself
Deleted(r, q, alone) ==
  IF q.kind = "delete" /\ r.status = 200
  THEN [any |-> gone.any \cup {q.id},
        safe |-> IF alone THEN gone.safe \cup {q.id} ELSE gone.safe]
  ELSE gone

\* history: the seed is written over the collection
Reseeded ==
  [gone EXCEPT !.safe = {id \in gone.safe : \A i \in 1..Len(seed) :
                                              seed[i].studentId # id}]

\* res.status(..).json(..) after an await: the request is over and its
\* locals are gone
Respond(p, r, f, ld, n) ==
  /\ pc' = [pc EXCEPT ![p] = "idle"]
  /\ req' = [req EXCEPT ![p] = NoReq]
  /\ students' = [students EXCEPT ![p] = <<>>]
  /\ removed' = [removed EXCEPT ![p] = NoRec]
  /\ loaded' = [loaded EXCEPT ![p] = <<>>]
  /\ calls' = [calls EXCEPT ![p] = 0]
  /\ before' = Absent
  /\ solo' = FALSE
  /\ Answered(r, req[p], solo, before, f, ld, n)
  /\ gone' = Deleted(r, req[p], solo)

\* a process is free to take a request
Ready(p) == pc[p] = "idle"

\* faulty variant: the data file is opened for writing before the checks
RejectAfterOpen(p, q, r) ==
  /\ nreq' = nreq + 1
  /\ file' = Bad(0)
  /\ Answered(r, q, TRUE, file, file', <<>>, 0)
  /\ gone' = Issued(q)
  /\ UNCHANGED <<seed, hasKey, pc, req, students, removed, before, solo,
                 loaded, calls>>

\* res.status(400).json(..) before any await
Reject(p, q, r) ==
  /\ nreq' = nreq + 1
  /\ Answered(r, q, TRUE, file, file, <<>>, 0)
  /\ gone' = Issued(q)
  /\ UNCHANGED <<seed, hasKey, file, pc, req, students, removed, before, solo,
                 loaded, calls>>

\* the handler calls readStudents(): ensureDataFile awaits ensureDir
Enter(p, q) ==
  /\ nreq' = nreq + 1
  /\ req' = [req EXCEPT ![p] = q]
  /\ solo' = Quiet
  /\ before' = IF Quiet THEN file ELSE Absent
  /\ pc' = [pc EXCEPT ![p] = "pathExists"]
  /\ gone' = Issued(q)
  /\ UNCHANGED <<seed, hasKey, file, students, removed, loaded, calls, last,
                 created>>

\* GET /students up to its first await
GetStudents(p) ==
  /\ Ready(p)
  /\ Enter(p, [NoReq EXCEPT !.kind = "list"])

\* POST /students up to its first await: the validation is synchronous
PostStudents(p, payload) ==
  LET q == [NoReq EXCEPT !.kind = "create", !.payload = payload] IN
  /\ Ready(p)
  /\ IF Validate(payload) # "none"
     THEN Reject(p, q, Err(400, Validate(payload)))
     ELSE Enter(p, q)

\* DELETE /students/:id up to its first await
DeleteStudent(p, id) ==
  /\ Ready(p)
  /\ Enter(p, [NoReq EXCEPT !.kind = "delete", !.id = id])

\* POST /chat up to its first await
PostChat(p, message) ==
  LET q == [NoReq EXCEPT !.kind = "chat", !.message = message] IN
  /\ Ready(p)
  /\ IF message = Empty
     THEN Reject(p, q, Err(400, "message"))
     ELSE Enter(p, q)

Const == <<seed, hasKey, nreq>>

Locals == <<req, students, removed, before, solo, loaded, calls>>

\* ensureDataFile: await fse.pathExists(DATA_FILE)
PathExists(p) ==
  /\ pc[p] = "pathExists"
  /\ pc' = [pc EXCEPT ![p] = IF file.kind = "absent" THEN "seedOpen"
                             ELSE "readCurrent"]
  /\ UNCHANGED <<Const, Locals, file, last, created, gone>>

\* faulty variant: an empty array is left alone
ReadCurrentNoReseed(p) ==
  /\ pc[p] = "readCurrent"
  /\ pc' = [pc EXCEPT ![p] = IF file.kind = "json" THEN "readJson" ELSE "seedOpen"]
  /\ UNCHANGED <<Const, Locals, file, last, created, gone>>

\* ensureDataFile: await fse.readJson(DATA_FILE), the empty-array test and
\* the catch
ReadCurrent(p) ==
  /\ pc[p] = "readCurrent"
  /\ pc' = [pc EXCEPT ![p] =
              IF file.kind = "json" /\ Len(file.data) > 0 THEN "readJson"
              ELSE "seedOpen"]
  /\ UNCHANGED <<Const, Locals, file, last, created, gone>>

\* ensureDataFile: fse.writeJson(DATA_FILE, SEED_STUDENTS) opens the file
SeedOpen(p) ==
  /\ pc[p] = "seedOpen"
  /\ file' = Bad(0)
  /\ pc' = [pc EXCEPT ![p] = "seedWrite"]
  /\ UNCHANGED <<Const, Locals, last, created, gone>>

\* faulty variant: an empty array is written, as the import tool does
SeedWriteEmpty(p) ==
  /\ pc[p] = "seedWrite"
  /\ file' = Overwrite(file, <<>>)
  /\ pc' = [pc EXCEPT ![p] = "readJson"]
  /\ gone' = Reseeded
  /\ UNCHANGED <<Const, Locals, last, created>>

\* ensureDataFile: fse.writeJson(DATA_FILE, SEED_STUDENTS) writes the text
SeedWrite(p) ==
  /\ pc[p] = "seedWrite"
  /\ file' = Overwrite(file, seed)
  /\ pc' = [pc EXCEPT ![p] = "readJson"]
  /\ gone' = Reseeded
  /\ UNCHANGED <<Const, Locals, last, created>>

\* the handler goes on to writeStudents(students)
ToWrite(p, list, rec) ==
  /\ students' = [students EXCEPT ![p] = list]
  /\ removed' = [removed EXCEPT ![p] = rec]
  /\ loaded' = [loaded EXCEPT ![p] = file.data]
  /\ pc' = [pc EXCEPT ![p] = "writeOpen"]
  /\ UNCHANGED <<req, before, solo, calls, last, created, gone>>

\* readStudents: return fse.readJson(DATA_FILE), and the handler's code up to
\* its next await (or its response)
ReadJson(p) ==
  /\ pc[p] = "readJson"
  /\ UNCHANGED <<Const, file>>
  /\ IF file.kind # "json"
     THEN Respond(p, Failure(req[p].kind), file, <<>>, 0)
     ELSE
       CASE req[p].kind = "list" ->
              Respond(p, [NoResp EXCEPT !.status = 200, !.list = file.data],
                      file, file.data, 0)
         [] req[p].kind = "create" ->
              IF HasId(file.data, req[p].payload.studentId)
              THEN Respond(p, Err(409, "Student ID already exists."),
                           file, file.data, 0)
              ELSE ToWrite(p, Push(file.data, req[p].payload), NoRec)
         [] req[p].kind = "delete" ->
              LET idx == FindIndex(file.data, req[p].id) IN
              IF idx = 0
              THEN Respond(p, Err(404, "Not found"), file, file.data, 0)
              ELSE ToWrite(p, Splice(file.data, idx), file.data[idx])
         [] OTHER ->
              IF ChatGate(file.data, hasKey) = 400
              THEN Respond(p, Err(400, "No student data available."),
                           file, file.data, 0)
              ELSE IF ChatGate(file.data, hasKey) = 500
              THEN Respond(p, Err(500, "LLM API key not configured on the server."),
                           file, file.data, 0)
              ELSE /\ loaded' = [loaded EXCEPT ![p] = file.data]
                   /\ students' = [students EXCEPT ![p] = file.data]
                   /\ pc' = [pc EXCEPT ![p] = "llm"]
                   /\ UNCHANGED <<req, removed, before, solo, calls, last, created, gone>>

\* writeStudents: fse.writeJson(DATA_FILE, students) opens the file
WriteOpen(p) ==
  /\ pc[p] = "writeOpen"
  /\ file' = Bad(0)
  /\ pc' = [pc EXCEPT ![p] = "writeWrite"]
  /\ UNCHANGED <<Const, Locals, last, created, gone>>

\* writeStudents: fse.writeJson(DATA_FILE, students) writes the text; the
\* handler then answers
WriteWrite(p) ==
  /\ pc[p] = "writeWrite"
  /\ file' = Overwrite(file, students[p])
  /\ UNCHANGED Const
  /\ IF req[p].kind = "create"
     THEN Respond(p, [NoResp EXCEPT !.status = 201, !.rec = req[p].payload],
                  file', loaded[p], 0)
     ELSE Respond(p, [NoResp EXCEPT !.status = 200, !.rec = removed[p]],
                  file', loaded[p], 0)

\* what the completion service may do with the one axios.post
Outcomes == {"reply", "empty", "fail"}

\* POST /chat: await axios.post(...) and the code after it
Llm(p, outcome) ==
  /\ pc[p] = "llm"
  /\ UNCHANGED <<Const, file>>
  /\ CASE outcome = "reply" ->
            Respond(p, [NoResp EXCEPT !.status = 200, !.error = "reply"],
                    file, loaded[p], calls[p] + 1)
       [] outcome = "empty" ->
            Respond(p, Err(500, "Empty reply from LLM."), file, loaded[p], calls[p] + 1)
       [] OTHER ->
            Respond(p, Failure("chat"), file, loaded[p], calls[p] + 1)

\* ------------------------------------------------------- specifications
Step(p) ==
  \/ PathExists(p)
  \/ ReadCurrent(p)
  \/ SeedOpen(p)
  \/ SeedWrite(p)
  \/ ReadJson(p)
  \/ WriteOpen(p)
  \/ WriteWrite(p)
  \/ \E outcome \in Outcomes : Llm(p, outcome)

Request(p) ==
  \/ GetStudents(p)
  \/ \E payload \in Payloads : PostStudents(p, payload)
  \/ \E id \in Ids : DeleteStudent(p, id)
  \/ \E message \in Messages : PostChat(p, message)

\* the processes are interchangeable slots for requests in flight: the
\* second is taken only while the first is busy
Slot(p) == p = "p1" \/ pc["p1"] # "idle"

\* requests may overlap
Next ==
  /\ \E p \in Procs : (nreq < MaxConc /\ Slot(p) /\ Request(p)) \/ Step(p)
  /\ UNCHANGED Aside

Spec == Init /\ [][Next]_vars

\* one request at a time: a request arrives only when none is in flight
SeqNext ==
  /\ \E p \in Procs :
       (nreq < MaxReqs /\ Quiet /\ Slot(p) /\ Request(p)) \/ Step(p)
  /\ UNCHANGED Aside

SeqSpec == Init /\ [][SeqNext]_vars

\* requests may overlap, and a GET /students arrives after them
TailNext ==
  \/ Next
  \/ nreq = MaxConc /\ Quiet /\ GetStudents("p1") /\ UNCHANGED Aside

TailSpec == Init /\ [][TailNext]_vars

\* --------------------------------------------- the form and the server
\* the errors[] of the submit handler, as the fields they are about
ClientErrors(data) ==
  {f \in Fields :
     \/ f = "studentId" /\ ~StudentIdOk(data.studentId)
     \/ f = "fullName" /\ ~FullNameOk(data.fullName)
     \/ f = "gmail" /\ ~GmailOk(data.gmail)
     \/ f = "program" /\ Trim(data.program) = Empty
     \/ f = "university" /\ Trim(data.university) = Empty
     \/ f = "yearLevel" /\ ~IsNumYear(Trim(data.yearLevel))
                        /\ ~IsOrdinal(Trim(data.yearLevel))}

TwoSpaces == <<" ", " ">>

\* what may be typed into the form or pasted as one bulk row
FormInputs ==
  [studentId  : {ID1, BadId},
   fullName   : {GoodName, DigitName, TwoSpaces},
   gender     : {<<"F">>, Empty},
   gmail      : {GoodGmail, UpperGmail, OtherMail},
   program    : {<<"B","S">>, Blank},
   yearLevel  : {NumYear, OrdYear, WordYear, PaddedYear},
   university : {<<"U">>, Empty}]

\* parts = line.split('|').map((s) => s.trim())
TrimAll(data) == [f \in Fields |-> Trim(data[f])]

\* the submit handler of #studentForm up to its first await: alert(errors)
\* and return, or API.add(data) with the data as typed
FormSubmit ==
  /\ form.pc = "filled"
  /\ IF ClientErrors(form.data) # {}
     THEN /\ form' = [form EXCEPT !.pc = "alerted", !.via = "form"]
          /\ UNCHANGED <<seed, hasKey, file, pc, req, students, removed,
                         before, solo, loaded, calls, last, created, gone, nreq>>
     ELSE /\ form' = [form EXCEPT !.pc = "sent", !.via = "form"]
          /\ PostStudents("p1", form.data)

\* the click handler of #bulkAddBtn for one row: API.add of the trimmed
\* parts, with none of the form's checks
BulkAdd ==
  /\ form.pc = "filled"
  /\ form' = [form EXCEPT !.pc = "sent", !.via = "bulk",
                          !.data = TrimAll(form.data)]
  /\ PostStudents("p1", TrimAll(form.data))

\* the steps of readStudents and writeStudents
Serve(p) ==
  \/ PathExists(p)
  \/ ReadCurrent(p)
  \/ SeedOpen(p)
  \/ SeedWrite(p)
  \/ ReadJson(p)
  \/ WriteOpen(p)
  \/ WriteWrite(p)

\* a page with its form filled in, and the server
FormInit ==
  /\ Boot
  /\ form \in [pc : {"filled"}, data : FormInputs, via : {"none"}]
  /\ tool = NoTool
  /\ ui = NoUi

FormNext ==
  /\ FormSubmit \/ BulkAdd \/ (Serve("p1") /\ UNCHANGED form)
  /\ UNCHANGED <<tool, ui>>

FormSpec == FormInit /\ [][FormNext]_vars

\* ------------------------------------------ tools/paste-to-json.js
\* String.prototype.split with a one-character separator
RECURSIVE SplitOn(_, _)
SplitOn(s, c) ==
  IF \E i \in 1..Len(s) : s[i] = c
  THEN LET i == CHOOSE k \in 1..Len(s) :
                  s[k] = c /\ \A j \in 1..(k-1) : s[j] # c
       IN  <<SubSeq(s, 1, i - 1)>> \o SplitOn(SubSeq(s, i + 1, Len(s)), c)
  ELSE <<s>>

\* arg.split(/\r?\n/): a carriage return right before the line feed goes
\* with it
SplitLines(s) ==
  LET ps == SplitOn(s, "\n") IN
  [i \in 1..Len(ps) |->
     IF i < Len(ps) /\ Len(ps[i]) > 0 /\ ps[i][Len(ps[i])] = "\r"
     THEN SubSeq(ps[i], 1, Len(ps[i]) - 1)
     ELSE ps[i]]

\* Array.prototype.join('\n')
RECURSIVE JoinLines(_)
JoinLines(argv) ==
  IF argv = <<>> THEN <<>>
  ELSE IF Len(argv) = 1 THEN argv[1]
  ELSE argv[1] \o <<"\n">> \o JoinLines(Tail(argv))

NonEmpty(l) == l # <<>>

\* arg.split(/\r?\n/).map(l => l.trim()).filter(Boolean)
PasteLines(arg) ==
  LET ls == SplitLines(arg) IN
  SelectSeq([i \in 1..Len(ls) |-> Trim(ls[i])], NonEmpty)

\* line.split('|').map(s => s.trim())
Parts(line) ==
  LET ps == SplitOn(line, "|") IN [i \in 1..Len(ps) |-> Trim(ps[i])]

SevenParts(line) == Len(Parts(line)) = 7

\* the rows[] the loop over the lines builds: the lines of seven parts
Rows(arg) ==
  LET ls == SelectSeq(PasteLines(arg), SevenParts) IN
  [i \in 1..Len(ls) |-> [k \in Fields |->
     Parts(ls[i])[CHOOSE n \in 1..7 : required[n] = k]]]

\* ids = new Set(current.map(s => s.studentId)); a row is pushed when its
\* id is not in ids, and ids is not added to
RECURSIVE Merge(_, _, _)
Merge(current, ids, rows) ==
  IF rows = <<>> THEN current
  ELSE IF rows[1].studentId \in ids THEN Merge(current, ids, Tail(rows))
  ELSE Merge(Append(current, rows[1]), ids, Tail(rows))

IdsOf(list) == {list[i].studentId : i \in 1..Len(list)}

\* a row as the usage comment writes it
Row(r) ==
  r.studentId \o <<" ","|"," ">> \o r.fullName \o <<" ","|"," ">> \o r.gender
    \o <<" ","|"," ">> \o r.gmail \o <<" ","|"," ">> \o r.program
    \o <<" ","|"," ">> \o r.yearLevel \o <<" ","|"," ">> \o r.university

Rec3b == [Rec3 EXCEPT !.fullName = <<"B","o">>]

\* command-line arguments: rows of a stored and of a new record, a second
\* row with the new record's id, a row ending in a carriage return and line
\* feed, a row of six parts and a blank
ArgLines ==
  {Row(Rec1), Row(Rec3), Row(Rec3b),
   Row(Rec2) \o <<"\r","\n">> \o Row(Rec3),
   <<"C","S","|","A","l","|","F","|","a","|","B","S","|","5">>, Blank}

Argvs == UNION {[1..n -> ArgLines] : n \in 0..MaxLines}

\* await fse.ensureFile(DATA_FILE): a missing file is created empty
PasteEnsureFile ==
  /\ tool.pc = "ensureFile"
  /\ file' = IF file.kind = "absent" THEN Bad(0) ELSE file
  /\ tool' = [tool EXCEPT !.pc = "pathExists"]

\* exists = await fse.pathExists(DATA_FILE);
\* if (!exists) await fse.writeJson(DATA_FILE, [])
PastePathExists ==
  /\ tool.pc = "pathExists"
  /\ file' = IF file.kind = "absent" THEN Json(<<>>) ELSE file
  /\ tool' = [tool EXCEPT !.pc = "readJson"]

\* current = await fse.readJson(DATA_FILE), which throws out of the async
\* function on a file that does not parse, and everything up to the next
\* await
PasteReadJson ==
  /\ tool.pc = "readJson"
  /\ UNCHANGED file
  /\ tool' =
       IF file.kind # "json" THEN [tool EXCEPT !.pc = "crashed"]
       ELSE IF TrimIsEmpty(JoinLines(tool.argv))
       THEN [tool EXCEPT !.pc = "exit1", !.before = file.data]
       ELSE [tool EXCEPT
               !.pc = "writeOpen",
               !.before = file.data,
               !.rows = Rows(JoinLines(tool.argv)),
               !.current = Merge(file.data, IdsOf(file.data),
                                 Rows(JoinLines(tool.argv)))]

\* fse.writeJson(DATA_FILE, current, { spaces: 2 }) opens the file
PasteWriteOpen ==
  /\ tool.pc = "writeOpen"
  /\ file' = Bad(0)
  /\ tool' = [tool EXCEPT !.pc = "writeWrite"]

\* fse.writeJson writes the text
PasteWriteWrite ==
  /\ tool.pc = "writeWrite"
  /\ file' = Overwrite(file, tool.current)
  /\ tool' = [tool EXCEPT !.pc = "done"]

\* the tool is started on the data file the server ships with
PasteInit ==
  /\ Boot
  /\ form = NoForm
  /\ ui = NoUi
  /\ tool \in [pc : {"ensureFile"}, argv : Argvs, before : {<<>>},
                rows : {<<>>}, current : {<<>>}]

PasteNext ==
  /\ \/ PasteEnsureFile
     \/ PastePathExists
     \/ PasteReadJson
     \/ PasteWriteOpen
     \/ PasteWriteWrite
  /\ UNCHANGED <<seed, hasKey, pc, req, students, removed, before, solo,
                 loaded, calls, last, created, gone, nreq, form, ui>>

PasteSpec == PasteInit /\ [][PasteNext]_vars

\* ------------------------------------------------------------ the page
\* the server's variables
Server == <<seed, hasKey, file, pc, req, students, removed, before, solo,
            loaded, calls, last, created, gone, nreq>>

\* hay.includes(kw)
Includes(hay, kw) ==
  \E i \in 0..(Len(hay) - Len(kw)) : SubSeq(hay, i + 1, i + Len(kw)) = kw

\* String(Number(digits)): no leading zeros, "0" for zeros only
RECURSIVE NumberString(_)
NumberString(digits) ==
  IF Len(digits) > 1 /\ digits[1] = "0" THEN NumberString(Tail(digits))
  ELSE digits

\* String(getYearNumber(yl)): the leading digits of yl as a number, or NaN
YearString(yl) ==
  IF yl = <<>> \/ yl[1] \notin Digit THEN <<"N","a","N">>
  ELSE LET n == CHOOSE k \in 1..Len(yl) :
                  /\ \A i \in 1..k : yl[i] \in Digit
                  /\ k = Len(yl) \/ yl[k+1] \notin Digit
       IN  NumberString(SubSeq(yl, 1, n))

\* the callback of allStudents.filter in update()
Keeps(r, inp) ==
  LET kw  == LowerStr(Trim(inp.q))
      pp  == LowerStr(Trim(inp.p))
      hay == LowerStr(r.fullName \o <<" ">> \o r.program \o <<" ">>
                        \o r.university)
  IN  /\ kw # Empty => Includes(hay, kw)
      /\ inp.g # Empty => r.gender = inp.g
      /\ pp # Empty => Includes(LowerStr(r.program), pp)
      /\ inp.y # Empty => YearString(r.yearLevel) = inp.y

\* allStudents.filter(..) for the values of the four inputs
Filtered(all, inp) ==
  LET Test(r) == Keeps(r, inp) IN SelectSeq(all, Test)

RecM ==
  [Rec3 EXCEPT !.fullName = <<"B","o">>, !.gender = <<"M">>,
               !.program = <<"I","T">>,
               !.yearLevel = <<"1","s","t"," ","Y","e","a","r">>]

\* what is typed into the form
Typed == {Rec3, RecM, [RecM EXCEPT !.fullName = DigitName]}

\* what is pasted into #bulkText
BulkTexts == {Row(RecM), Row(Rec3) \o <<"\n">> \o Row(Rec3b), Blank}

\* values of #q, #fltGender, #fltProgram and #fltYear
Inputs ==
  [q |-> {Empty, <<" ","B","O">>}, g |-> {Empty, <<"M">>},
   p |-> {Empty, <<"i","t">>},      y |-> {Empty, <<"1">>}]

NoInputs == [q |-> Empty, g |-> Empty, p |-> Empty, y |-> Empty]

\* the page before init()
Page ==
  [pc |-> "init", all |-> <<>>, view |-> <<>>, inp |-> NoInputs,
   queue |-> <<>>, wired |-> FALSE, n |-> 0]

\* no handler of the page is running
Idle == ui.pc = "idle" /\ form.pc # "sent"

\* the user may act
Click == Idle /\ ui.wired /\ ui.n < MaxClicks

\* init(): reload() up to its await of API.list()
init ==
  /\ ui.pc = "init"
  /\ GetStudents("p1")
  /\ ui' = [ui EXCEPT !.pc = "reload"]
  /\ UNCHANGED form

\* reload() after its await: allStudents = the body; render(allStudents),
\* which throws on a body that is no array; after the first reload init()
\* wires the handlers
reload ==
  /\ ui.pc = "reload"
  /\ pc["p1"] = "idle"
  /\ ui' = IF last.resp.status = 200
            THEN [ui EXCEPT !.pc = "idle", !.all = last.resp.list,
                            !.view = last.resp.list, !.wired = TRUE]
            ELSE [ui EXCEPT !.pc = "broken"]
  /\ UNCHANGED <<Server, form>>

\* the input/change handler of the four filter inputs: update()
update(k, v) ==
  /\ ui.wired
  /\ ui.n < MaxClicks
  /\ ui.inp[k] # v
  /\ LET inp == [ui.inp EXCEPT ![k] = v] IN
     ui' = [ui EXCEPT !.inp = inp, !.view = Filtered(ui.all, inp),
                      !.n = ui.n + 1]
  /\ UNCHANGED <<Server, form>>

\* the click handler of #resetFilters
resetFilters ==
  /\ ui.wired
  /\ ui.n < MaxClicks
  /\ ui.inp # NoInputs
  /\ ui' = [ui EXCEPT !.inp = NoInputs, !.view = ui.all, !.n = ui.n + 1]
  /\ UNCHANGED <<Server, form>>

\* the user fills in #studentForm
Fill(data) ==
  /\ Click
  /\ form.pc # "filled"
  /\ form' = [pc |-> "filled", data |-> data, via |-> "none"]
  /\ ui' = [ui EXCEPT !.n = ui.n + 1]
  /\ UNCHANGED Server

\* the submit handler after await API.add(data): form.reset() and reload(),
\* or alert(e2.message)
Added ==
  /\ form.pc = "sent"
  /\ ui.pc = "idle"
  /\ pc["p1"] = "idle"
  /\ IF last.resp.status = 201
     THEN /\ form' = NoForm
          /\ GetStudents("p1")
          /\ ui' = [ui EXCEPT !.pc = "reload"]
     ELSE /\ form' = [form EXCEPT !.pc = "alerted"]
          /\ UNCHANGED <<Server, ui>>

\* the click handler of a row's Delete button up to await API.remove(id)
remove(id) ==
  /\ Click
  /\ \E i \in 1..Len(ui.view) : ui.view[i].studentId = id
  /\ DeleteStudent("p1", id)
  /\ ui' = [ui EXCEPT !.pc = "remove", !.n = ui.n + 1]
  /\ UNCHANGED form

\* the same handler after the await: reload(), or alert(e.message)
Removed ==
  /\ ui.pc = "remove"
  /\ pc["p1"] = "idle"
  /\ IF last.resp.status = 200
     THEN /\ GetStudents("p1")
          /\ ui' = [ui EXCEPT !.pc = "reload"]
     ELSE /\ ui' = [ui EXCEPT !.pc = "idle"]
          /\ UNCHANGED Server
  /\ UNCHANGED form

\* the click handler of #bulkAddBtn up to its loop: the rows of seven parts
\* are the ones API.add is called for
Bulk(text) ==
  /\ Click
  /\ ui' = IF Trim(text) = Empty
            THEN [ui EXCEPT !.n = ui.n + 1]
            ELSE [ui EXCEPT !.pc = "bulk", !.queue = Rows(Trim(text)),
                            !.n = ui.n + 1]
  /\ UNCHANGED <<Server, form>>

\* the loop of that handler: await API.add(..) for the next row, and
\* reload() after the last
BulkLoop ==
  /\ ui.pc = "bulk"
  /\ pc["p1"] = "idle"
  /\ IF ui.queue = <<>>
     THEN /\ GetStudents("p1")
          /\ ui' = [ui EXCEPT !.pc = "reload"]
     ELSE /\ PostStudents("p1", Head(ui.queue))
          /\ ui' = [ui EXCEPT !.queue = Tail(ui.queue)]
  /\ UNCHANGED form

\* the page is opened on a server that has just started
PageInit ==
  /\ Boot
  /\ hasKey = FALSE
  /\ form = NoForm
  /\ tool = NoTool
  /\ ui = Page

PageNext ==
  /\ \/ init
     \/ reload
     \/ \E k \in {"q", "g", "p", "y"} : \E v \in Inputs[k] : update(k, v)
     \/ resetFilters
     \/ \E data \in Typed : Fill(data)
     \/ Idle /\ FormSubmit /\ UNCHANGED ui
     \/ Added
     \/ \E id \in Ids : remove(id)
     \/ Removed
     \/ \E text \in BulkTexts : Bulk(text)
     \/ BulkLoop
     \/ Serve("p1") /\ UNCHANGED <<form, ui>>
  /\ UNCHANGED tool

PageSpec == PageInit /\ [][PageNext]_vars

TypeOK ==
  /\ seed \in Seeds
  /\ file.kind \in {"absent", "json", "bad"}
  /\ \A p \in Procs : pc[p] \in {"idle", "pathExists", "readCurrent",
       "seedOpen", "seedWrite", "readJson", "writeOpen", "writeWrite", "llm"}
  /\ nreq >= 0

\* ------------------------------------------------------------ vocabulary
\* how often a record occurs in a collection
Count(list, r) == Cardinality({i \in 1..Len(list) : list[i] = r})

\* a collection holds a record with this studentId
Holds(list, id) == \E i \in 1..Len(list) : list[i].studentId = id

\* the persisted collection holds a record with this studentId
InFile(f, id) == f.kind = "json" /\ Holds(f.data, id)

\* the persisted collection is absent or an empty array
Unseeded(f) == f.kind = "absent" \/ (f.kind = "json" /\ f.data = <<>>)

\* the records the data file holds, none when it is absent
Records(f) == IF f.kind = "json" THEN f.data ELSE <<>>

\* the collection a request served alone works on: the persisted one, or the
\* bundled seed when the persisted one is absent or empty
Current(f) == IF Unseeded(f) THEN seed ELSE f.data

\* a List served alone is about to return, right after the request `last`
ListFollows ==
  \E p \in Procs : /\ pc[p] = "readJson"
                   /\ req[p].kind = "list"
                   /\ solo
                   /\ before = last.post

\* the last answered request was a Create served alone
SoloCreate == last.req.kind = "create" /\ last.solo

\* the last answered request was a Delete served alone
SoloDelete == last.req.kind = "delete" /\ last.solo

\* ---------------------------------------------------------------- claims
C1_Created ==
  (/\ SoloCreate
   /\ Validate(last.req.payload) = "none"
   /\ ~Holds(Current(last.pre), last.req.payload.studentId))
  => (/\ last.resp.status = 201
      /\ last.resp.rec = last.req.payload
      /\ last.post.kind = "json"
      /\ Count(last.post.data, last.req.payload) = 1)

C1_Listed ==
  (SoloCreate /\ last.resp.status = 201 /\ ListFollows /\ Quiet')
  => (/\ last'.req.kind = "list"
      /\ last'.resp.status = 200
      /\ Count(last'.resp.list, last.req.payload) = 1)

\* C1: a Create served alone, whose candidate passes the validation and
\* whose studentId is not in the current collection (the persisted one, or
\* the seed when that is absent or empty), is answered 201 with the record,
\* and the List that follows it returns the record exactly once.
C1_CreateThenList == []C1_Created /\ [][C1_Listed]_vars

\* C1 witness: the List that follows a successful Create is about to return
C1_Witness ==
  /\ SoloCreate
  /\ last.resp.status = 201
  /\ ~Holds(Current(last.pre), last.req.payload.studentId)
  /\ ListFollows

\* C2: no two records of the persisted collection have the same studentId,
\* in every state of every interleaving of requests.
C2_UniqueIds ==
  file.kind = "json" =>
    \A i, j \in 1..Len(file.data) :
      file.data[i].studentId = file.data[j].studentId => i = j

\* C2 witness: two Creates were answered 201 and both records are stored
C2_Witness ==
  /\ Quiet
  /\ Cardinality(created) = 2
  /\ file.kind = "json"
  /\ \A id \in created : Holds(file.data, id)

\* C3: a Create served alone whose studentId is that of a stored record, and
\* whose candidate passes the validation, is answered 409 and leaves the
\* persisted collection as it was.
C3_Conflict ==
  (/\ SoloCreate
   /\ Validate(last.req.payload) = "none"
   /\ InFile(last.pre, last.req.payload.studentId))
  => (/\ last.resp.status = 409
      /\ last.post = last.pre)

\* C3 witness: a Create of a stored studentId was answered, the candidate
\* differing from the stored record
C3_Witness ==
  /\ SoloCreate
  /\ Validate(last.req.payload) = "none"
  /\ InFile(last.pre, last.req.payload.studentId)
  /\ Count(last.pre.data, last.req.payload) = 0
  /\ Len(last.pre.data) >= 2

\* the rule of the validation table for one field
RuleOk(f, v) ==
  CASE f = "studentId"  -> StudentIdOk(v)
    [] f = "fullName"   -> FullNameOk(v)
    [] f = "gmail"      -> GmailOk(v)
    [] f = "program"    -> ~TrimIsEmpty(v)
    [] f = "university" -> ~TrimIsEmpty(v)
    [] f = "yearLevel"  -> IsNumYear(v) \/ IsOrdinal(v)
    [] OTHER            -> Len(v) > 0

\* the fields of a record that break their rule
Broken(r) == {f \in Fields : ~RuleOk(f, r[f])}

\* C4 as stated: a candidate that breaks the rule of exactly one field is
\* answered 400 naming that field, and a candidate that breaks none is not
\* answered 400.
C4_Claim ==
  last.req.kind = "create" =>
    /\ Cardinality(Broken(last.req.payload)) = 1 =>
         (last.resp.status = 400 /\ last.resp.error \in Broken(last.req.payload))
    /\ Broken(last.req.payload) = {} => last.resp.status # 400

\* C5 as stated: every record of the persisted collection satisfies the rule
\* of all seven fields.
C5_Claim ==
  file.kind = "json" => \A i \in 1..Len(file.data) : Broken(file.data[i]) = {}

\* C6: a Delete served alone of a studentId in the persisted collection is
\* answered 200 with the matching record, and the collection afterwards is
\* the previous one without that record, the others in their order.
C6_Delete ==
  (SoloDelete /\ InFile(last.pre, last.req.id))
  => /\ last.resp.status = 200
     /\ last.resp.rec.studentId = last.req.id
     /\ last.post.kind = "json"
     /\ ~Holds(last.post.data, last.req.id)
     /\ \E i \in 1..Len(last.pre.data) :
          /\ last.pre.data[i] = last.resp.rec
          /\ last.post.data = SubSeq(last.pre.data, 1, i - 1)
                                \o SubSeq(last.pre.data, i + 1, Len(last.pre.data))

\* C6 witness: the middle one of three records was deleted
C6_Witness ==
  /\ SoloDelete
  /\ last.resp.status = 200
  /\ last.pre.kind = "json"
  /\ Len(last.pre.data) = 3
  /\ last.pre.data[2] = last.resp.rec

\* C7 as stated: a Delete served alone of a studentId that matches no record
\* is answered 404 and leaves the persisted collection unchanged, also when
\* that is empty or absent.
C7_Original ==
  (SoloDelete /\ ~Holds(Current(last.pre), last.req.id))
  => (last.resp.status = 404 /\ Records(last.post) = Records(last.pre))

\* C7 (amended): a Delete served alone of a studentId that matches no record
\* of the current collection is answered 404 and leaves the current
\* collection persisted: the persisted collection is unchanged when it was
\* not empty, and it is the bundled seed when it was empty or absent.
C7_NotFound ==
  (SoloDelete /\ ~Holds(Current(last.pre), last.req.id))
  => /\ last.resp.status = 404
     /\ last.post = Json(Current(last.pre))
     /\ ~Unseeded(last.pre) => last.post = last.pre

\* C7 witness: a Delete of an unknown studentId found the persisted
\* collection empty and was answered 404 after the seed was written
C7_Witness ==
  /\ SoloDelete
  /\ last.resp.status = 404
  /\ last.pre = Json(<<>>)
  /\ last.post # last.pre

\* the last answered request was a List served alone on an empty array
ListOnEmpty == last.req.kind = "list" /\ last.solo /\ last.pre = Json(<<>>)

C8_First ==
  ListOnEmpty => /\ last.resp.status = 200
                 /\ last.resp.list = seed
                 /\ last.post = Json(seed)

C8_Second ==
  (ListOnEmpty /\ ListFollows /\ Quiet')
  => /\ last'.resp.status = 200
     /\ last'.resp.list = last.resp.list
     /\ last'.post = last.post
     /\ file' = file

\* C8: a List served alone on an empty array returns the bundled seed, and
\* the List that follows it returns the same collection and leaves the
\* persisted collection unchanged.
C8_Idempotent == []C8_First /\ [][C8_Second]_vars

\* C8 witness: the second List is about to return, the seed not being empty
C8_Witness == ListOnEmpty /\ seed # <<>> /\ ListFollows

\* the last answered request was a Chat served alone on an empty array
ChatOnEmpty == last.req.kind = "chat" /\ last.solo /\ last.pre = Json(<<>>)

\* C9 as stated: a Chat that finds the persisted collection empty is
\* answered 400.
C9_Original == ChatOnEmpty => last.resp.status = 400

\* C9 (amended): a Chat served alone that finds the persisted collection
\* empty is answered 400 exactly when its message is missing or the bundled
\* seed is empty as well, with or without a credential; with a seed that is
\* not empty the collection is seeded again before it is looked at.
C9_ChatOnEmpty ==
  ChatOnEmpty =>
    (last.resp.status = 400 <=> (last.req.message = Empty \/ seed = <<>>))

\* C9 witness: a Chat with a message, no credential, an empty array and an
\* empty seed was answered 400
C9_Witness ==
  /\ ChatOnEmpty
  /\ last.req.message # Empty
  /\ ~hasKey
  /\ last.resp.status = 400

\* two Creates and nothing else were received, and both were answered 201
TwoCreated == Quiet /\ nreq = 2 /\ Cardinality(created) = 2

\* C10: when two Creates of different studentIds have both been answered
\* 201, the persisted collection is what the Create that wrote last had read
\* plus its own record, whatever the other one wrote.
C10_LastWriteWins ==
  (TwoCreated /\ file.kind = "json")
  => /\ last.resp.status = 201
     /\ file.data = Append(last.loaded, last.req.payload)

\* C10 witness: both Creates were answered 201 and the record of one of them
\* is not in the persisted collection
C10_LostUpdate ==
  /\ TwoCreated
  /\ file.kind = "json"
  /\ Holds(file.data, last.req.payload.studentId)
  /\ \E id \in created : ~Holds(file.data, id)

\* C11 as stated: a read of the data file finds the complete old or the
\* complete new collection, never a file that is being written.
C11_Claim ==
  \A p \in Procs : pc[p] \in {"readCurrent", "readJson"} => file.kind # "bad"

\* a response is sent in this step
Answers ==
  \/ nreq' = nreq + 1 /\ pc' = pc
  \/ \E p \in Procs : pc[p] # "idle" /\ pc'[p] = "idle"

C12_State ==
  (last.req.kind = "create" /\ last.resp.status = 400)
  => (last.post = last.pre /\ last.loaded = <<>>)

C12_Step ==
  (Answers /\ last'.req.kind = "create" /\ last'.resp.status = 400)
  => (file' = file /\ last'.pre = file /\ nreq' = nreq + 1 /\ pc' = pc)

\* C12: a Create answered 400 is answered in the step in which it arrives,
\* before the data file is read or written, and the persisted collection is
\* what it was.
C12_NoPartial == []C12_State /\ [][C12_Step]_vars

\* C12 witness: a Create was answered 400 while a collection was stored
C12_Witness ==
  /\ last.req.kind = "create"
  /\ last.resp.status = 400
  /\ file.kind = "json"
  /\ Len(file.data) >= 2
  /\ file = last.pre

\* C13 as stated: a candidate that breaks a rule and whose studentId is
\* stored is answered 400, and 409 is only answered to candidates that break
\* no rule.
C13_Claim ==
  SoloCreate =>
    /\ (Broken(last.req.payload) # {} /\ InFile(last.pre, last.req.payload.studentId))
         => last.resp.status = 400
    /\ last.resp.status = 409 => Broken(last.req.payload) = {}

\* C14: a Create served alone that is answered 201 leaves the collection it
\* read with the record added at the end, the records before it in place,
\* and answers with the record.
C14_Append ==
  (SoloCreate /\ last.resp.status = 201)
  => /\ last.loaded = Current(last.pre)
     /\ last.post = Json(Append(last.loaded, last.req.payload))
     /\ \A i \in 1..Len(last.loaded) : last.post.data[i] = last.loaded[i]
     /\ last.post.data[Len(last.post.data)] = last.resp.rec
     /\ last.resp.rec = last.req.payload

\* C14 witness: a record was added to a collection of two
C14_Witness ==
  /\ SoloCreate
  /\ last.resp.status = 201
  /\ Len(last.loaded) = 2
  /\ Quiet

\* the last answered request went through readStudents, alone
SoloRead ==
  /\ last.solo
  /\ last.req.kind \in {"list", "delete", "create", "chat"}
  /\ ~(last.req.kind = "create" /\ last.resp.status = 400)
  /\ ~(last.req.kind = "chat" /\ last.req.message = Empty)

\* C15 as stated, its consequence: with a seed that is not empty no List
\* returns the empty array.
C15_Original ==
  (last.req.kind = "list" /\ last.resp.status = 200 /\ seed # <<>>)
  => last.resp.list # <<>>

C15_State ==
  /\ (SoloRead /\ Unseeded(last.pre)) => last.loaded = seed
  /\ (SoloRead /\ last.req.kind = "list" /\ seed # <<>>)
       => (last.resp.status = 200 /\ last.resp.list # <<>>)

C15_Step ==
  (SoloDelete /\ last.resp.status = 200 /\ last.post = Json(<<>>)
     /\ ListFollows /\ Quiet')
  => (last'.resp.status = 200 /\ last'.resp.list = seed /\ file' = Json(seed))

\* C15 (amended): a store read by a request served alone that finds the
\* collection absent or empty works on the bundled seed, nothing else; with
\* a seed that is not empty no List served alone returns the empty array,
\* and the List that follows the deletion of the last record returns the
\* seed.  (A List that overlaps a Delete may return the empty array.)
C15_Reseed == []C15_State /\ [][C15_Step]_vars

\* C15 witness: the List that follows the deletion of the last record is
\* about to return
C15_Witness ==
  /\ SoloDelete
  /\ last.resp.status = 200
  /\ last.post = Json(<<>>)
  /\ seed # <<>>
  /\ ListFollows

\* C16: the completion service is called at most once per Chat, and only
\* with a message, a collection that is not empty and a credential; 200 is
\* answered only for a reply that is not empty, every other outcome of the
\* call is answered 500.
C16_Chat ==
  /\ \A p \in Procs : pc[p] = "llm" =>
       /\ req[p].message # Empty
       /\ loaded[p] # <<>>
       /\ hasKey
       /\ calls[p] = 0
  /\ last.req.kind = "chat" =>
       /\ last.calls \in {0, 1}
       /\ last.calls = 1 =>
            (last.req.message # Empty /\ last.loaded # <<>> /\ hasKey)
       /\ last.resp.status = 200 =>
            (last.calls = 1 /\ last.resp.error = "reply")
       /\ last.resp.status \in {200, 400, 500}
       /\ (last.calls = 1 /\ last.resp.error # "reply") => last.resp.status = 500
       /\ last.resp.status = 400 => last.calls = 0

\* C16 witness: a Chat was answered 200 after one call
C16_Witness ==
  /\ last.req.kind = "chat"
  /\ last.resp.status = 200
  /\ last.calls = 1

\* the last answered request was a List answered 200
Listed == last.req.kind = "list" /\ last.resp.status = 200

\* C18 as stated: once DELETE answered 200 for an id, no List answered later
\* holds a record with that id unless a POST /students of that id has
\* arrived since.
C18_Original == Listed => \A id \in gone.any : ~Holds(last.resp.list, id)

\* C18 (amended): once a DELETE that overlapped no other request answered
\* 200 for an id, the data file and every List answered later hold no record
\* with that id, unless a POST /students of that id has arrived since or the
\* seed, which holds the id, was written over the collection.
C18_Durable ==
  \A id \in gone.safe :
    /\ ~InFile(file, id)
    /\ Listed => ~Holds(last.resp.list, id)

\* C18 witness: a List answered after such a DELETE returned the records
\* that were left
C18_Witness ==
  /\ Listed
  /\ gone.safe # {}
  /\ last.resp.list # <<>>
  /\ nreq = MaxConc + 1

\* the submission of the form was answered by the server
FormAnswered ==
  /\ form.pc = "sent"
  /\ pc["p1"] = "idle"
  /\ last.req.kind = "create"
  /\ last.req.payload = form.data

\* C19 as stated: what the form lets through is never answered 400, and
\* what the server stores passes the form's checks.
C19_Claim ==
  FormAnswered =>
    /\ form.via = "form" => last.resp.status # 400
    /\ last.resp.status = 201 => ClientErrors(form.data) = {}

\* no two records of the collection have the same studentId
NoDupIds(list) ==
  \A i, j \in 1..Len(list) : list[i].studentId = list[j].studentId => i = j

\* C17 as stated: when the file read by paste-to-json.js has no two records
\* with the same studentId, the file it writes has none either, and holds
\* the records it read, unchanged and in place.
C17_Claim ==
  (tool.pc = "done" /\ NoDupIds(tool.before))
  => /\ file.kind = "json"
     /\ NoDupIds(file.data)
     /\ Len(file.data) >= Len(tool.before)
     /\ SubSeq(file.data, 1, Len(tool.before)) = tool.before

\* C20 as stated: whenever no handler of the page is running, viewStudents
\* is allStudents filtered by the values of the four filter inputs.
C20_Claim == (Idle /\ ui.wired) => ui.view = Filtered(ui.all, ui.inp)

====
